---- MODULE Spec2Model ----
(***************************************************************************)
(* Token lifecycle and session security engine of Weeg_Backend             *)
(* (apps/token_security, with the password operations of                   *)
(* apps/authentication that call into it).                                 *)
(*                                                                         *)
(* Every HTTP request is handled by a worker.  A handler is a chain of     *)
(* steps, one per database or cache operation, so that the steps of        *)
(* requests handled by different workers interleave.  Tokens are signed    *)
(* values held by clients: the set "issued" is what clients hold.  Tokens  *)
(* are modelled within their lifetime (signature and expiry checks pass).  *)
(***************************************************************************)
EXTENDS Integers, Sequences, FiniteSets, Bags, TLC

(* ---------------------------------------------------------------- bounds *)
\* MaxJti: the jtis that can be minted; NumWorkers: the requests handled at
\* once; MaxVersion: the password changes per user; MaxAttempts: the rows of
\* the login attempt log; LockoutTicks: the clock ticks that make up one
\* LOCKOUT_DURATION; MaxCodes: the reset codes issued; MaxGuesses: the wrong
\* codes sent for one issued code
MaxJti == 6
NumWorkers == 2
MaxVersion == 2
MaxAttempts == 9
LockoutTicks == 2
MaxCodes == 1
MaxGuesses == 6

(* ----------------------------------------------------- program constants *)
MAX_LOGIN_ATTEMPTS == 5
\* ForgotPasswordVerifyView.MAX_ATTEMPTS
MAX_ATTEMPTS == 5

Workers == 1..NumWorkers
Users == {"u1", "u2"}
Emails == Users \cup {"nobody"}
Devices == {"d1", "d2"}
IPs == {"ip1", "ip2"}
Credentials == {"missing", "wrong", "right"}
\* User.AccountStatus
AccountStatuses == {"pending", "approved", "rejected", "active", "suspended"}

VARIABLES
  tokenVersion,   \* User.token_version, per user
  status,         \* User.status, per user
  blacklist,      \* rows of TokenBlacklist
  sessions,       \* rows of ActiveSession
  rotations,      \* rows of RefreshTokenRotation
  loginAttempts,  \* rows of LoginAttempt (a bag of rows)
  nextJti,        \* the next unused jti
  attempts,       \* cache key login_attempts:<ip>: [n, ttl], ttl = 0 when absent
  lockout,        \* cache key login_lockout:<ip>: remaining ttl, 0 when absent
  pc,             \* per worker: the step its request is at
  loc,            \* per worker: the locals of the request it handles
  issued,         \* history: tokens returned to clients
  rotOK,          \* history: per refresh jti, the refresh calls answered 200
  rotRaised,      \* history: refresh jtis whose ledger insert raised IntegrityError
  dead,           \* history: jtis issued to a subject before a replay response
  mintEpoch,      \* history: per jti, the stored token_version when it was minted
  blCalls,        \* history: per jti, the reasons _blacklist_jti was called with
  fails,          \* history: per ip, failed logins since the last success
  password,       \* User.password, per user
  resetCodes,     \* cache key pwd_reset_code:<email>: the entry, or NoCode
  resetTokens,    \* cache keys pwd_reset_token:<token>: the entries
  pwSets,         \* history: per jti of a temporary token, the passwords saved on it
  wrongGuesses    \* history: per issued code, in order of issue, the wrong
                  \* codes compared with it

dbVars == <<tokenVersion, status, blacklist, sessions, rotations, loginAttempts, nextJti>>
cacheVars == <<attempts, lockout>>
procVars == <<pc, loc>>
histVars == <<issued, rotOK, rotRaised, dead, mintEpoch, blCalls, fails>>
\* the passwords and the state of the password reset flows
resetVars == <<password, resetCodes, resetTokens, pwSets, wrongGuesses>>
vars == <<dbVars, cacheVars, procVars, histVars, resetVars>>

(* ------------------------------------------------------ tokens and hashes *)
\* hashlib.sha256(value).hexdigest(): one-way, equal only on equal inputs
_hash_value(value) == <<"sha256", value>>

\* the fingerprint of a request, from its headers (here: its device)
get_device_fingerprint(dev) == <<"sha256", <<dev, "|", dev, "|", dev>>>>

NoTok == [jti |-> 0, kind |-> "none", user |-> "none", ver |-> 0,
          device_fp |-> <<>>, ip_hash |-> <<>>, action |-> "none"]

\* CustomRefreshToken.for_user_with_context
RefreshFor(jti, user, ver, dev, ip) ==
  [jti |-> jti, kind |-> "refresh", user |-> user, ver |-> ver,
   device_fp |-> _hash_value(get_device_fingerprint(dev)),
   ip_hash |-> _hash_value(ip), action |-> "none"]

\* TemporaryToken.for_user_action
TemporaryFor(jti, user, ver, action) ==
  [jti |-> jti, kind |-> "temporary", user |-> user, ver |-> ver,
   device_fp |-> <<>>, ip_hash |-> <<>>, action |-> action]

\* RefreshToken.access_token: a new jti, the claims of the refresh token copied
AccessOf(refresh, jti, ver) ==
  [refresh EXCEPT !.jti = jti, !.kind = "access", !.ver = ver]

(* --------------------------------------------------------- blacklist store *)
BlacklistedJtis(bl) == {e.jti : e \in bl}

\* mutant: update_or_create, the row of a known jti is rewritten
_blacklist_jti_overwrite(bl, jti, user, token_type, reason) ==
  {e \in bl : e.jti # jti} \cup
    {[jti |-> jti, user |-> user, token_type |-> token_type, reason |-> reason]}

\* TokenService._blacklist_jti: get_or_create on the unique token_jti
_blacklist_jti(bl, jti, user, token_type, reason) ==
  IF jti \in BlacklistedJtis(bl)
  THEN bl
  ELSE bl \cup {[jti |-> jti, user |-> user, token_type |-> token_type,
                 reason |-> reason]}

NoteCall(calls, jti, reason) == [calls EXCEPT ![jti] = @ \cup {reason}]

(* ------------------------------------------------- the authentication gate *)
\* BlacklistValidator.validate
BlacklistValidator(jti) == jti \notin BlacklistedJtis(blacklist)

\* mutant: the version claim is not compared
TokenVersionValidator_skip(tok, user) == TRUE

\* TokenVersionValidator.validate
TokenVersionValidator(tok, user) == tok.ver = tokenVersion[user]

\* mutant: a token without device_fp is refused
DeviceValidator_strict(tok, current_fingerprint) ==
  tok.device_fp = _hash_value(current_fingerprint)

\* DeviceValidator.validate: a token without device_fp is tolerated
DeviceValidator(tok, current_fingerprint) ==
  IF tok.device_fp = <<>>
  THEN TRUE
  ELSE tok.device_fp = _hash_value(current_fingerprint)

\* IPValidator.validate: the result is only logged
IPValidator(tok, current_ip) ==
  IF tok.ip_hash = <<>> THEN TRUE ELSE tok.ip_hash = _hash_value(current_ip)

\* mutant: a changed address is refused
_log_ip_change_reject == "ip_mismatch"

\* CustomJWTAuthentication._log_ip_change: a warning is logged, the request
\* goes on
_log_ip_change == "ok"

\* mutant: the device check runs before the blacklist and version checks
Gate_device_first(tok, dev, ip) ==
  IF tok.kind # "access" THEN "token_not_valid"
  ELSE IF ~DeviceValidator(tok, get_device_fingerprint(dev))
       THEN "device_fingerprint_mismatch"
  ELSE IF ~BlacklistValidator(tok.jti) THEN "token_blacklisted"
  ELSE IF ~TokenVersionValidator(tok, tok.user) THEN "token_version_mismatch"
  ELSE IF ~IPValidator(tok, ip) THEN _log_ip_change
  ELSE "ok"

\* CustomJWTAuthentication.authenticate: "ok" or the code of the failure
Gate(tok, dev, ip) ==
  IF tok.kind # "access" THEN "token_not_valid"
  ELSE IF ~BlacklistValidator(tok.jti) THEN "token_blacklisted"
  ELSE IF ~TokenVersionValidator(tok, tok.user) THEN "token_version_mismatch"
  ELSE IF ~DeviceValidator(tok, get_device_fingerprint(dev))
       THEN "device_fingerprint_mismatch"
  ELSE IF ~IPValidator(tok, ip) THEN _log_ip_change
  ELSE "ok"

(* ------------------------------------------------------------ rate limiter *)
\* RateLimitLoginMiddleware._is_locked_out
_is_locked_out(ip) == lockout[ip] > 0

\* cache.get(attempts_key, 0)
CacheGetAttempts(ip) == IF attempts[ip].ttl > 0 THEN attempts[ip].n ELSE 0

(* ------------------------------------------------------------------ workers *)
\* cache.get of a pwd_reset_code key that is not set
NoCode == [code |-> "none", user_id |-> "none", attempts |-> 0, issue |-> 0]

Idle == [op |-> "none", email |-> "none", creds |-> "none", tok |-> NoTok,
         user |-> "none", ver |-> 0, dev |-> "none", ip |-> "none",
         newR |-> NoTok, newA |-> NoTok, todo |-> {}, count |-> 0,
         reason |-> "none", read |-> 0, status |-> 0, code |-> "none",
         locked |-> FALSE, checked |-> FALSE, revoked |-> FALSE,
         sid |-> 0, before |-> {}, blBefore |-> {}, newpw |-> "none",
         data |-> NoCode, guess |-> "none", rows |-> 0]

NoFails == [prev |-> 0, ages |-> <<>>]

Init ==
  /\ tokenVersion = [u \in Users |-> 0]
  /\ status = [u \in Users |-> IF u = "u1" THEN "active" ELSE "approved"]
  /\ blacklist = {}
  /\ sessions = {}
  /\ rotations = {}
  /\ loginAttempts = EmptyBag
  /\ nextJti = 1
  /\ attempts = [i \in IPs |-> [n |-> 0, ttl |-> 0]]
  /\ lockout = [i \in IPs |-> 0]
  /\ pc = [p \in Workers |-> "idle"]
  /\ loc = [p \in Workers |-> Idle]
  /\ issued = {}
  /\ rotOK = [j \in 1..(MaxJti + 1) |-> 0]
  /\ rotRaised = {}
  /\ dead = {}
  /\ mintEpoch = [j \in 1..(MaxJti + 1) |-> 0]
  /\ blCalls = [j \in 1..(MaxJti + 1) |-> {}]
  /\ fails = [i \in IPs |-> NoFails]
  /\ password = [u \in Users |-> "pw0"]
  /\ resetCodes = [e \in Emails |-> NoCode]
  /\ resetTokens = {}
  /\ pwSets = [j \in 1..(MaxJti + 1) |-> 0]
  /\ wrongGuesses = <<>>

\* requests in flight that have yet to mint a token pair
Minting(p) == {q \in Workers \ {p} : pc[q] \in {"login_view", "rot_mint"}}
JtiLeft(p) == nextJti + 2 * (Cardinality(Minting(p)) + 1) - 1 <= MaxJti

Min(a, b) == IF a < b THEN a ELSE b

\* the last MAX_LOGIN_ATTEMPTS entries of a sequence
LastN(s) ==
  IF Len(s) <= MAX_LOGIN_ATTEMPTS THEN s
  ELSE SubSeq(s, Len(s) - MAX_LOGIN_ATTEMPTS + 1, Len(s))

\* history of the failed logins of one address since its last success: the age
\* in ticks of each (of the last MAX_LOGIN_ATTEMPTS), and the number of
\* failures that the last success followed
FailedLogin(f) == [f EXCEPT !.ages = LastN(Append(@, 0))]
SucceededLogin(f) == [prev |-> Len(f.ages), ages |-> <<>>]

(* -------------------------------------------------------------------- login *)
\* mutant: the refused request starts the lockout duration again
RateLimitedResponse_extend(ip) ==
  /\ lockout' = [lockout EXCEPT ![ip] = LockoutTicks]
  /\ UNCHANGED attempts

\* RateLimitLoginMiddleware.__call__ on a locked address: the 429 response is
\* built and returned, no cache key is read again or written
RateLimitedResponse(ip) == UNCHANGED <<attempts, lockout>>

\* RateLimitLoginMiddleware.__call__, before the view: the lockout check
LoginStart(p, email, creds, dev, ip) ==
  /\ pc[p] = "idle"
  /\ BagCardinality(loginAttempts) < MaxAttempts
  /\ (email \in Users /\ creds = "right") => JtiLeft(p)
  /\ IF _is_locked_out(ip)
     THEN /\ pc' = [pc EXCEPT ![p] = "done"]
          /\ loc' = [loc EXCEPT ![p] = [Idle EXCEPT !.op = "login", !.ip = ip,
                                           !.status = 429, !.code = "rate_limited",
                                           !.locked = lockout[ip] > 0,
                                           !.rows = BagCardinality(loginAttempts)]]
          /\ RateLimitedResponse(ip)
     ELSE /\ pc' = [pc EXCEPT ![p] = "login_view"]
          /\ loc' = [loc EXCEPT ![p] = [Idle EXCEPT !.op = "login", !.email = email,
                                           !.creds = creds, !.dev = dev, !.ip = ip,
                                           !.locked = lockout[ip] > 0,
                                           !.rows = BagCardinality(loginAttempts)]]
          /\ UNCHANGED cacheVars
  /\ UNCHANGED <<dbVars, histVars, resetVars>>

\* django.contrib.auth.authenticate: the user, or "none"
authenticate(email, creds) ==
  IF email \in Users /\ creds = "right" THEN email ELSE "none"

\* mutant: only a suspended account is refused
_check_account_status_suspended_only(user) ==
  IF status[user] = "suspended" THEN "account_suspended" ELSE "none"

\* LoginView._check_account_status: the code of the refusal, or "none"
_check_account_status(user) ==
  CASE status[user] = "pending" -> "account_pending"
    [] status[user] = "rejected" -> "account_rejected"
    [] status[user] = "suspended" -> "account_suspended"
    [] OTHER -> "none"

AttemptRow(email, ip, ok, reason) ==
  [email |-> email, ip |-> ip, is_successful |-> ok, failure_reason |-> reason]

\* LoginView.post with TokenService.issue_tokens
LoginView(p) ==
  /\ pc[p] = "login_view"
  /\ LET l == loc[p]
         user == authenticate(l.email, l.creds)
     IN
     IF l.creds = "missing" THEN
       /\ loc' = [loc EXCEPT ![p].status = 400, ![p].code = "missing"]
       /\ UNCHANGED <<dbVars, issued, mintEpoch>>
     ELSE IF user = "none" THEN
       /\ loginAttempts' = loginAttempts (+)
                            SetToBag({AttemptRow(l.email, l.ip, FALSE, "invalid_credentials")})
       /\ loc' = [loc EXCEPT ![p].status = 401, ![p].code = "invalid_credentials",
                             ![p].checked = TRUE]
       /\ UNCHANGED <<tokenVersion, status, blacklist, sessions, rotations, nextJti,
                      issued, mintEpoch>>
     ELSE IF _check_account_status(user) # "none" THEN
       /\ loginAttempts' = loginAttempts (+)
                            SetToBag({AttemptRow(l.email, l.ip, FALSE,
                                                 _check_account_status(user))})
       /\ loc' = [loc EXCEPT ![p].status = 403, ![p].code = _check_account_status(user),
                             ![p].checked = TRUE]
       /\ UNCHANGED <<tokenVersion, status, blacklist, sessions, rotations, nextJti,
                      issued, mintEpoch>>
     ELSE
       LET refresh == RefreshFor(nextJti, user, tokenVersion[user], l.dev, l.ip)
           access == AccessOf(refresh, nextJti + 1, tokenVersion[user])
       IN
       /\ loginAttempts' = loginAttempts (+)
                            SetToBag({AttemptRow(l.email, l.ip, TRUE, "none")})
       /\ nextJti' = nextJti + 2
       /\ sessions' = sessions \cup
                      {[id |-> refresh.jti, user |-> user, refresh_token_jti |-> refresh.jti,
                        device_fingerprint |-> get_device_fingerprint(l.dev),
                        ip_address |-> l.ip]}
       /\ loc' = [loc EXCEPT ![p].status = 200, ![p].code = "ok", ![p].user = user,
                             ![p].newR = refresh, ![p].newA = access,
                             ![p].checked = TRUE]
       /\ issued' = issued \cup {refresh, access}
       /\ mintEpoch' = [mintEpoch EXCEPT ![refresh.jti] = tokenVersion[user],
                                         ![access.jti] = tokenVersion[user]]
       /\ UNCHANGED <<tokenVersion, status, blacklist, rotations>>
  /\ pc' = [pc EXCEPT ![p] = "login_after"]
  /\ UNCHANGED <<cacheVars, rotOK, rotRaised, dead, blCalls, fails, resetVars>>

\* mutant: only the lockout key is deleted
_reset_attempts_lock_only(ip) ==
  /\ lockout' = [lockout EXCEPT ![ip] = 0]
  /\ UNCHANGED attempts

\* RateLimitLoginMiddleware._reset_attempts
_reset_attempts(ip) ==
  /\ attempts' = [attempts EXCEPT ![ip] = [n |-> 0, ttl |-> 0]]
  /\ lockout' = [lockout EXCEPT ![ip] = 0]

\* RateLimitLoginMiddleware.__call__, after the view: reset on 200, and on
\* 400, 401 or 403 the cache.get of _increment_attempts
LoginAfter(p) ==
  /\ pc[p] = "login_after"
  /\ LET l == loc[p] IN
     IF l.status = 200
     THEN /\ _reset_attempts(l.ip)
          /\ fails' = [fails EXCEPT ![l.ip] = SucceededLogin(@)]
          /\ pc' = [pc EXCEPT ![p] = "done"]
          /\ UNCHANGED loc
     ELSE /\ loc' = [loc EXCEPT ![p].read = CacheGetAttempts(l.ip)]
          /\ pc' = [pc EXCEPT ![p] = "login_incr"]
          /\ UNCHANGED <<cacheVars, fails>>
  /\ UNCHANGED <<dbVars, issued, rotOK, rotRaised, dead, mintEpoch, blCalls, resetVars>>

\* mutant: the threshold is compared with > instead of >=
ReachedThreshold_strict(n) == n > MAX_LOGIN_ATTEMPTS

\* the threshold test of _increment_attempts
ReachedThreshold(n) == n >= MAX_LOGIN_ATTEMPTS

\* RateLimitLoginMiddleware._increment_attempts: the cache.set calls
LoginIncrement(p) ==
  /\ pc[p] = "login_incr"
  /\ LET l == loc[p]
         n == l.read + 1
     IN
     /\ attempts' = [attempts EXCEPT ![l.ip] = [n |-> n, ttl |-> LockoutTicks]]
     /\ lockout' = IF ReachedThreshold(n)
                   THEN [lockout EXCEPT ![l.ip] = LockoutTicks]
                   ELSE lockout
     /\ fails' = [fails EXCEPT ![l.ip] = FailedLogin(@)]
  /\ pc' = [pc EXCEPT ![p] = "done"]
  /\ UNCHANGED <<dbVars, loc, issued, rotOK, rotRaised, dead, mintEpoch, blCalls, resetVars>>

\* the response leaves the worker
Respond(p) ==
  /\ pc[p] = "done"
  /\ pc' = [pc EXCEPT ![p] = "idle"]
  /\ loc' = [loc EXCEPT ![p] = Idle]
  /\ UNCHANGED <<dbVars, cacheVars, histVars, resetVars>>

\* time passes: every cache key is one tick closer to its expiry
Age(f) == [f EXCEPT !.ages = [k \in 1..Len(@) |-> Min(@[k] + 1, LockoutTicks)]]
Tick ==
  /\ \E i \in IPs : attempts[i].ttl > 0 \/ lockout[i] > 0
  /\ attempts' = [i \in IPs |-> IF attempts[i].ttl > 1
                                THEN [attempts[i] EXCEPT !.ttl = @ - 1]
                                ELSE [n |-> 0, ttl |-> 0]]
  /\ lockout' = [i \in IPs |-> IF lockout[i] > 0 THEN lockout[i] - 1 ELSE 0]
  /\ fails' = [i \in IPs |-> Age(fails[i])]
  /\ UNCHANGED <<dbVars, procVars, issued, rotOK, rotRaised, dead, mintEpoch, blCalls, resetVars>>

(* ---------------------------------------------------------------- refresh *)
\* mutant: the ledger is not consulted
AlreadyRotated_never(jti) == FALSE

\* RefreshTokenRotation.objects.filter(old_token_jti=old_jti).exists()
AlreadyRotated(jti) == \E r \in rotations : r.old_token_jti = jti

\* mutant: old_token_jti without its unique constraint
OldJtiTaken_never(jti) == FALSE

\* RefreshTokenRotation.old_token_jti is unique: an insert of a taken value raises
OldJtiTaken(jti) == \E r \in rotations : r.old_token_jti = jti

\* RefreshView.post: the token is decoded, then rotate_refresh_token looks the
\* old jti up in the rotation ledger
RefreshStart(p, tok, dev, ip) ==
  /\ pc[p] = "idle"
  /\ tok \in issued
  /\ IF tok.kind # "refresh" THEN
       /\ pc' = [pc EXCEPT ![p] = "done"]
       /\ loc' = [loc EXCEPT ![p] = [Idle EXCEPT !.op = "refresh", !.tok = tok,
                                        !.status = 401, !.code = "token_not_valid"]]
     ELSE IF AlreadyRotated(tok.jti) THEN
       /\ pc' = [pc EXCEPT ![p] = "ra_count"]
       /\ loc' = [loc EXCEPT ![p] = [Idle EXCEPT !.op = "refresh", !.tok = tok,
                                        !.user = tok.user, !.dev = dev, !.ip = ip,
                                        !.reason = "token_reuse",
                                        !.revoked = tok.jti \in BlacklistedJtis(blacklist)]]
     ELSE
       /\ JtiLeft(p)
       /\ pc' = [pc EXCEPT ![p] = "rot_mint"]
       /\ loc' = [loc EXCEPT ![p] = [Idle EXCEPT !.op = "refresh", !.tok = tok,
                                        !.user = tok.user, !.dev = dev, !.ip = ip,
                                        !.revoked = tok.jti \in BlacklistedJtis(blacklist)]]
  /\ UNCHANGED <<dbVars, cacheVars, histVars, resetVars>>

\* the token_version that rotate_refresh_token puts in the new tokens
RotateVersion(user, old) == tokenVersion[user]

\* rotate_refresh_token: the user is read and the new pair is minted
RotateMint(p) ==
  /\ pc[p] = "rot_mint"
  /\ LET l == loc[p]
         ver == RotateVersion(l.user, l.tok)
         refresh == RefreshFor(nextJti, l.user, ver, l.dev, l.ip)
         access == AccessOf(refresh, nextJti + 1, ver)
     IN
     /\ nextJti' = nextJti + 2
     /\ loc' = [loc EXCEPT ![p].newR = refresh, ![p].newA = access]
     /\ mintEpoch' = [mintEpoch EXCEPT ![refresh.jti] = tokenVersion[l.user],
                                       ![access.jti] = tokenVersion[l.user]]
  /\ pc' = [pc EXCEPT ![p] = "rot_insert"]
  /\ UNCHANGED <<tokenVersion, status, blacklist, sessions, rotations, loginAttempts,
                 cacheVars, issued, rotOK, rotRaised, dead, blCalls, fails, resetVars>>

\* rotate_refresh_token: RefreshTokenRotation.objects.create, old_token_jti unique
RotateInsert(p) ==
  /\ pc[p] = "rot_insert"
  /\ LET l == loc[p] IN
     IF OldJtiTaken(l.tok.jti) THEN
       \* IntegrityError: no handler in RefreshView.post catches it
       /\ pc' = [pc EXCEPT ![p] = "done"]
       /\ loc' = [loc EXCEPT ![p].status = 500, ![p].code = "integrity_error",
                             ![p].newR = NoTok, ![p].newA = NoTok]
       /\ rotRaised' = rotRaised \cup {l.tok.jti}
       /\ UNCHANGED rotations
     ELSE
       /\ rotations' = rotations \cup
                       {[old_token_jti |-> l.tok.jti, new_token_jti |-> l.newR.jti,
                         user |-> l.user, ip_address |-> l.ip,
                         device_fingerprint |-> get_device_fingerprint(l.dev)]}
       /\ pc' = [pc EXCEPT ![p] = "rot_blacklist"]
       /\ UNCHANGED <<loc, rotRaised>>
  /\ UNCHANGED <<tokenVersion, status, blacklist, sessions, loginAttempts, nextJti,
                 cacheVars, issued, rotOK, dead, mintEpoch, blCalls, fails, resetVars>>

\* rotate_refresh_token: the old refresh jti is blacklisted
RotateBlacklist(p) ==
  /\ pc[p] = "rot_blacklist"
  /\ LET l == loc[p] IN
     /\ blacklist' = _blacklist_jti(blacklist, l.tok.jti, l.user, "refresh", "logout")
     /\ blCalls' = NoteCall(blCalls, l.tok.jti, "logout")
  /\ pc' = [pc EXCEPT ![p] = "rot_session"]
  /\ UNCHANGED <<tokenVersion, status, sessions, rotations, loginAttempts, nextJti,
                 cacheVars, loc, issued, rotOK, rotRaised, dead, mintEpoch, fails, resetVars>>

\* mutant: the row of the old jti is deleted and a row is created for the new
UpdateSession_recreate(rows, user, old_jti, new_jti) ==
  {IF s.user = user /\ s.refresh_token_jti = old_jti
   THEN [s EXCEPT !.id = new_jti, !.refresh_token_jti = new_jti]
   ELSE s : s \in rows}

\* ActiveSession.objects.filter(user=user, refresh_token_jti=old_jti)
\*   .update(refresh_token_jti=new_jti): no other column is written
UpdateSession(rows, user, old_jti, new_jti) ==
  {IF s.user = user /\ s.refresh_token_jti = old_jti
   THEN [s EXCEPT !.refresh_token_jti = new_jti]
   ELSE s : s \in rows}

\* rotate_refresh_token: the session row follows the new jti; the pair is returned
RotateSession(p) ==
  /\ pc[p] = "rot_session"
  /\ LET l == loc[p] IN
     /\ sessions' = UpdateSession(sessions, l.user, l.tok.jti, l.newR.jti)
     /\ issued' = issued \cup {l.newR, l.newA}
     /\ rotOK' = [rotOK EXCEPT ![l.tok.jti] = @ + 1]
  /\ loc' = [loc EXCEPT ![p].status = 200, ![p].code = "ok"]
  /\ pc' = [pc EXCEPT ![p] = "done"]
  /\ UNCHANGED <<tokenVersion, status, blacklist, rotations, loginAttempts, nextJti,
                 cacheVars, rotRaised, dead, mintEpoch, blCalls, fails, resetVars>>

(* ------------------------------------------------- revoke_all_user_tokens *)
\* mutant: the sessions are not filtered by user
SessionsOf_everyone(user) == sessions

\* ActiveSession.objects.filter(user=user)
SessionsOf(user) == {s \in sessions : s.user = user}

\* revoke_all_user_tokens: active_sessions.count()
RevokeAllCount(p) ==
  /\ pc[p] = "ra_count"
  /\ loc' = [loc EXCEPT ![p].count = Cardinality(SessionsOf(loc[p].user)),
                        ![p].before = sessions]
  /\ pc' = [pc EXCEPT ![p] = "ra_list"]
  /\ UNCHANGED <<dbVars, cacheVars, histVars, resetVars>>

\* revoke_all_user_tokens: the for loop evaluates the queryset once
RevokeAllList(p) ==
  /\ pc[p] = "ra_list"
  /\ loc' = [loc EXCEPT ![p].todo = {s.refresh_token_jti : s \in SessionsOf(loc[p].user)}]
  /\ pc' = [pc EXCEPT ![p] = "ra_loop"]
  /\ UNCHANGED <<dbVars, cacheVars, histVars, resetVars>>

Lowest(S) == CHOOSE x \in S : \A y \in S : x <= y

\* revoke_all_user_tokens: one turn of the loop, _blacklist_jti of one session
RevokeAllBlacklist(p) ==
  /\ pc[p] = "ra_loop"
  /\ loc[p].todo # {}
  /\ LET l == loc[p]
         jti == Lowest(l.todo)
     IN
     /\ blacklist' = _blacklist_jti(blacklist, jti, l.user, "refresh", l.reason)
     /\ blCalls' = NoteCall(blCalls, jti, l.reason)
     /\ loc' = [loc EXCEPT ![p].todo = @ \ {jti}]
  /\ UNCHANGED <<tokenVersion, status, sessions, rotations, loginAttempts, nextJti,
                 cacheVars, pc, issued, rotOK, rotRaised, dead, mintEpoch, fails, resetVars>>

\* the tokens that the message of the replay response says are revoked
IssuedTo(user) == {t.jti : t \in {x \in issued : x.user = user}}

\* revoke_all_user_tokens: active_sessions.delete() runs the query again; then
\* the caller answers
RevokeAllDelete(p) ==
  /\ pc[p] = "ra_loop"
  /\ loc[p].todo = {}
  /\ LET l == loc[p] IN
     /\ sessions' = sessions \ SessionsOf(l.user)
     /\ IF l.reason = "token_reuse"
        THEN /\ loc' = [loc EXCEPT ![p].status = 401, ![p].code = "token_reuse_detected"]
             /\ dead' = dead \cup IssuedTo(l.user)
        ELSE /\ loc' = [loc EXCEPT ![p].status = 200, ![p].code = "ok"]
             /\ UNCHANGED dead
  /\ pc' = [pc EXCEPT ![p] = "done"]
  /\ UNCHANGED <<tokenVersion, status, blacklist, rotations, loginAttempts, nextJti,
                 cacheVars, issued, rotOK, rotRaised, mintEpoch, blCalls, fails, resetVars>>

(* ------------------------------------------------ authenticated requests *)
\* any view behind IsAuthenticated: the gate decides
Authenticate(p, access, dev, ip) ==
  /\ pc[p] = "idle"
  /\ access \in issued
  /\ loc' = [loc EXCEPT ![p] = [Idle EXCEPT !.op = "authenticate", !.tok = access,
                                   !.dev = dev, !.ip = ip,
                                   !.status = IF Gate(access, dev, ip) = "ok"
                                              THEN 200 ELSE 401,
                                   !.code = Gate(access, dev, ip)]]
  /\ pc' = [pc EXCEPT ![p] = "done"]
  /\ UNCHANGED <<dbVars, cacheVars, histVars, resetVars>>

\* LogoutView.post: the gate has passed, the refresh token of the body is decoded
LogoutStart(p, access, refresh, dev, ip) ==
  /\ pc[p] = "idle"
  /\ access \in issued
  /\ refresh \in issued
  /\ Gate(access, dev, ip) = "ok"
  /\ IF refresh.kind # "refresh"
     THEN /\ pc' = [pc EXCEPT ![p] = "done"]
          /\ loc' = [loc EXCEPT ![p] = [Idle EXCEPT !.op = "logout", !.tok = refresh,
                                           !.user = access.user,
                                           !.status = 400, !.code = "token_not_valid"]]
     ELSE /\ pc' = [pc EXCEPT ![p] = "rv_blacklist"]
          /\ loc' = [loc EXCEPT ![p] = [Idle EXCEPT !.op = "logout", !.tok = refresh,
                                           !.user = access.user, !.reason = "logout"]]
  /\ UNCHANGED <<dbVars, cacheVars, histVars, resetVars>>

\* revoke_token: _blacklist_jti
RevokeBlacklist(p) ==
  /\ pc[p] = "rv_blacklist"
  /\ LET l == loc[p] IN
     /\ blacklist' = _blacklist_jti(blacklist, l.tok.jti, l.user, "refresh", l.reason)
     /\ blCalls' = NoteCall(blCalls, l.tok.jti, l.reason)
  /\ pc' = [pc EXCEPT ![p] = "rv_delete"]
  /\ UNCHANGED <<tokenVersion, status, sessions, rotations, loginAttempts, nextJti,
                 cacheVars, loc, issued, rotOK, rotRaised, dead, mintEpoch, fails, resetVars>>

\* revoke_token: the session of this user with this refresh jti is deleted
RevokeDelete(p) ==
  /\ pc[p] = "rv_delete"
  /\ LET l == loc[p] IN
     sessions' = {s \in sessions : ~(s.user = l.user /\ s.refresh_token_jti = l.tok.jti)}
  /\ loc' = [loc EXCEPT ![p].status = 200, ![p].code = "ok"]
  /\ pc' = [pc EXCEPT ![p] = "done"]
  /\ UNCHANGED <<tokenVersion, status, blacklist, rotations, loginAttempts, nextJti,
                 cacheVars, histVars, resetVars>>

\* mutant: the session is looked up by its id alone
FindSession_any_owner(session_id, user) == {x \in sessions : x.id = session_id}

\* ActiveSession.objects.get(id=session_id, user=request.user)
FindSession(session_id, user) ==
  {x \in sessions : x.id = session_id /\ x.user = user}

\* RevokeSessionView.delete: the gate has passed, the session is looked up,
\* then revoke_token is called with its refresh jti
RevokeSessionStart(p, access, session_id, dev, ip) ==
  /\ pc[p] = "idle"
  /\ access \in issued
  /\ Gate(access, dev, ip) = "ok"
  /\ LET found == FindSession(session_id, access.user)
         req == [Idle EXCEPT !.op = "revoke_session", !.user = access.user,
                             !.sid = session_id, !.before = sessions,
                             !.blBefore = blacklist]
     IN
     IF found = {}
     THEN /\ pc' = [pc EXCEPT ![p] = "done"]
          /\ loc' = [loc EXCEPT ![p] = [req EXCEPT !.status = 404, !.code = "not_found"]]
     ELSE /\ pc' = [pc EXCEPT ![p] = "rv_blacklist"]
          /\ loc' = [loc EXCEPT ![p] =
                       [req EXCEPT !.reason = "admin_revoked",
                                   !.tok = [NoTok EXCEPT
                                              !.jti = (CHOOSE x \in found : TRUE).refresh_token_jti,
                                              !.kind = "refresh", !.user = access.user]]]
  /\ UNCHANGED <<dbVars, cacheVars, histVars, resetVars>>

\* LogoutAllView.post
LogoutAllStart(p, access, dev, ip) ==
  /\ pc[p] = "idle"
  /\ access \in issued
  /\ Gate(access, dev, ip) = "ok"
  /\ pc' = [pc EXCEPT ![p] = "ra_count"]
  /\ loc' = [loc EXCEPT ![p] = [Idle EXCEPT !.op = "logout_all", !.user = access.user,
                                   !.reason = "logout_all"]]
  /\ UNCHANGED <<dbVars, cacheVars, histVars, resetVars>>

\* ChangePasswordView.post: request.user was loaded by the gate; the old
\* password of the request is the stored one
ChangePasswordStart(p, access, new_password, dev, ip) ==
  /\ pc[p] = "idle"
  /\ access \in issued
  /\ Gate(access, dev, ip) = "ok"
  /\ tokenVersion[access.user] < MaxVersion
  /\ pc' = [pc EXCEPT ![p] = "pw_increment"]
  /\ loc' = [loc EXCEPT ![p] = [Idle EXCEPT !.op = "change_password",
                                   !.user = access.user,
                                   !.ver = tokenVersion[access.user],
                                   !.newpw = new_password,
                                   !.reason = "password_changed"]]
  /\ UNCHANGED <<dbVars, cacheVars, histVars, resetVars>>

\* User.increment_token_version
increment_token_version(token_version) == token_version + 1

\* UserService.change_password: the password is saved, the version incremented
ChangePasswordIncrement(p) ==
  /\ pc[p] = "pw_increment"
  /\ password' = [password EXCEPT ![loc[p].user] = loc[p].newpw]
  /\ tokenVersion' = [tokenVersion EXCEPT
                        ![loc[p].user] = increment_token_version(loc[p].ver)]
  /\ pc' = [pc EXCEPT ![p] = "ra_count"]
  /\ UNCHANGED <<status, blacklist, sessions, rotations, loginAttempts, nextJti,
                 cacheVars, loc, histVars, resetCodes, resetTokens, pwSets,
                 wrongGuesses>>

(* ------------------------------------------- password reset by emailed link *)
Passwords == {"pw0", "pw1", "pw2"}

\* User.role
role(user) == IF user = "u1" THEN "manager" ELSE "agent"

\* User.is_agent
is_agent(user) == role(user) = "agent"

\* RequestPasswordResetView.post: the gate has passed; request_password_reset
\* mints a temporary token for the target user and mails it
RequestPasswordResetView(p, access, target, dev, ip) ==
  /\ pc[p] = "idle"
  /\ access \in issued
  /\ Gate(access, dev, ip) = "ok"
  /\ nextJti <= MaxJti
  /\ LET req == [Idle EXCEPT !.op = "request_reset", !.user = access.user] IN
     IF is_agent(access.user)
     THEN /\ loc' = [loc EXCEPT ![p] = [req EXCEPT !.status = 403, !.code = "forbidden"]]
          /\ UNCHANGED <<nextJti, issued, mintEpoch>>
     ELSE LET token == TemporaryFor(nextJti, target, tokenVersion[target],
                                    "password_reset")
          IN
          /\ nextJti' = nextJti + 1
          /\ issued' = issued \cup {token}
          /\ mintEpoch' = [mintEpoch EXCEPT ![token.jti] = tokenVersion[target]]
          /\ loc' = [loc EXCEPT ![p] = [req EXCEPT !.status = 200, !.code = "ok"]]
  /\ pc' = [pc EXCEPT ![p] = "done"]
  /\ UNCHANGED <<tokenVersion, status, blacklist, sessions, rotations, loginAttempts,
                 cacheVars, rotOK, rotRaised, dead, blCalls, fails, resetVars>>

\* ConfirmPasswordResetView.post: TemporaryToken(raw) decodes a token of type
\* temporary, then the action claim is compared
TemporaryTokenAccepted(token) ==
  /\ token.kind = "temporary"
  /\ token.action = "password_reset"

\* ConfirmPasswordResetView.post: the token is decoded and the user is loaded
ConfirmPasswordResetView(p, token, new_password) ==
  /\ pc[p] = "idle"
  /\ token \in issued
  /\ LET req == [Idle EXCEPT !.op = "confirm_reset", !.tok = token] IN
     IF ~TemporaryTokenAccepted(token)
     THEN /\ pc' = [pc EXCEPT ![p] = "done"]
          /\ loc' = [loc EXCEPT ![p] = [req EXCEPT !.status = 400,
                                                   !.code = "token_invalid"]]
     ELSE /\ tokenVersion[token.user] < MaxVersion
          /\ pc' = [pc EXCEPT ![p] = "rp_increment"]
          /\ loc' = [loc EXCEPT ![p] = [req EXCEPT !.user = token.user,
                                                   !.ver = tokenVersion[token.user],
                                                   !.newpw = new_password,
                                                   !.reason = "password_reset"]]
  /\ UNCHANGED <<dbVars, cacheVars, histVars, resetVars>>

\* UserService.reset_password: the password is saved, the version incremented
reset_password(p) ==
  /\ pc[p] = "rp_increment"
  /\ password' = [password EXCEPT ![loc[p].user] = loc[p].newpw]
  /\ tokenVersion' = [tokenVersion EXCEPT
                        ![loc[p].user] = increment_token_version(loc[p].ver)]
  /\ pwSets' = [pwSets EXCEPT ![loc[p].tok.jti] = @ + 1]
  /\ pc' = [pc EXCEPT ![p] = "ra_count"]
  /\ UNCHANGED <<status, blacklist, sessions, rotations, loginAttempts, nextJti,
                 cacheVars, loc, histVars, resetCodes, resetTokens, wrongGuesses>>

(* ------------------------------------------- password reset by emailed code *)
\* _generate_code: random digits
Codes == {"000000", "111111"}

\* ForgotPasswordRequestView.post; "" is a request without email
ForgotPasswordRequestView(p, email) ==
  /\ pc[p] = "idle"
  /\ LET req == [Idle EXCEPT !.op = "forgot_request", !.email = email] IN
     IF email = "" THEN
       /\ loc' = [loc EXCEPT ![p] = [req EXCEPT !.status = 400, !.code = "email_required"]]
       /\ UNCHANGED <<resetCodes, wrongGuesses>>
     ELSE IF email \notin Users THEN
       /\ loc' = [loc EXCEPT ![p] = [req EXCEPT !.status = 200, !.code = "generic"]]
       /\ UNCHANGED <<resetCodes, wrongGuesses>>
     ELSE IF status[email] = "rejected" THEN
       /\ loc' = [loc EXCEPT ![p] = [req EXCEPT !.status = 403, !.code = "account_rejected"]]
       /\ UNCHANGED <<resetCodes, wrongGuesses>>
     ELSE
       /\ Len(wrongGuesses) < MaxCodes
       /\ \E code \in Codes :
            resetCodes' = [resetCodes EXCEPT ![email] =
                             [code |-> code, user_id |-> email, attempts |-> 0,
                              issue |-> Len(wrongGuesses) + 1]]
       /\ wrongGuesses' = Append(wrongGuesses, 0)
       /\ loc' = [loc EXCEPT ![p] = [req EXCEPT !.status = 200, !.code = "generic"]]
  /\ pc' = [pc EXCEPT ![p] = "done"]
  /\ UNCHANGED <<dbVars, cacheVars, histVars, password, resetTokens, pwSets>>

\* ForgotPasswordVerifyView.post: cache.get of the code entry
ForgotPasswordVerifyView(p, email, code) ==
  /\ pc[p] = "idle"
  /\ LET data == resetCodes[email]
         req == [Idle EXCEPT !.op = "forgot_verify", !.email = email,
                             !.guess = code, !.data = data]
     IN
     /\ (data # NoCode /\ data.code # code) => wrongGuesses[data.issue] < MaxGuesses
     /\ IF data = NoCode
        THEN /\ pc' = [pc EXCEPT ![p] = "done"]
             /\ loc' = [loc EXCEPT ![p] = [req EXCEPT !.status = 400,
                                                      !.code = "code_expired"]]
        ELSE /\ pc' = [pc EXCEPT ![p] = "fv_decide"]
             /\ loc' = [loc EXCEPT ![p] = req]
  /\ UNCHANGED <<dbVars, cacheVars, histVars, resetVars>>

\* ForgotPasswordVerifyView.post: data["attempts"] >= self.MAX_ATTEMPTS
TooManyAttempts(data) == data.attempts >= MAX_ATTEMPTS

\* _generate_token: a token no key of the cache has
NewResetToken == <<"reset_token", Cardinality(resetTokens) + 1>>

\* ForgotPasswordVerifyView.post, on the entry it has read: the entry is
\* deleted (429), or written back with one more attempt (400), or the reset
\* token is stored
VerifyDecide(p) ==
  /\ pc[p] = "fv_decide"
  /\ LET l == loc[p] IN
     IF TooManyAttempts(l.data) THEN
       /\ resetCodes' = [resetCodes EXCEPT ![l.email] = NoCode]
       /\ loc' = [loc EXCEPT ![p].status = 429, ![p].code = "too_many_attempts"]
       /\ pc' = [pc EXCEPT ![p] = "done"]
       /\ UNCHANGED <<resetTokens, wrongGuesses>>
     ELSE IF l.data.code # l.guess THEN
       /\ resetCodes' = [resetCodes EXCEPT ![l.email] =
                           [l.data EXCEPT !.attempts = @ + 1]]
       /\ wrongGuesses' = [wrongGuesses EXCEPT ![l.data.issue] = @ + 1]
       /\ loc' = [loc EXCEPT ![p].status = 400, ![p].code = "code_incorrect"]
       /\ pc' = [pc EXCEPT ![p] = "done"]
       /\ UNCHANGED resetTokens
     ELSE
       /\ resetTokens' = resetTokens \cup
                           {[token |-> NewResetToken, user_id |-> l.data.user_id,
                             email |-> l.email]}
       /\ loc' = [loc EXCEPT ![p].reason = "verified", ![p].sid = NewResetToken[2]]
       /\ pc' = [pc EXCEPT ![p] = "fv_delete"]
       /\ UNCHANGED <<resetCodes, wrongGuesses>>
  /\ UNCHANGED <<dbVars, cacheVars, histVars, password, pwSets>>

\* ForgotPasswordVerifyView.post: the used code is deleted, the reset token
\* is returned
VerifyDelete(p) ==
  /\ pc[p] = "fv_delete"
  /\ resetCodes' = [resetCodes EXCEPT ![loc[p].email] = NoCode]
  /\ loc' = [loc EXCEPT ![p].status = 200, ![p].code = "ok"]
  /\ pc' = [pc EXCEPT ![p] = "done"]
  /\ UNCHANGED <<dbVars, cacheVars, histVars, password, resetTokens, pwSets,
                 wrongGuesses>>

(* ------------------------------------------------------- the rate limiter, *)
(* one worker, one client address, time passing                             *)
NextRate ==
  \/ \E c \in Credentials : LoginStart(1, "u1", c, "d1", "ip1")
  \/ LoginView(1)
  \/ LoginAfter(1)
  \/ LoginIncrement(1)
  \/ Respond(1)
  \/ Tick

SpecRate == Init /\ [][NextRate]_vars

(* ------------------------------------------ the token engine, one worker *)
Login(p) == LoginStart(p, "u1", "right", "d1", "ip1")

TokenSteps(p) ==
  \/ LoginView(p)
  \/ LoginAfter(p)
  \/ RotateMint(p)
  \/ RotateInsert(p)
  \/ RotateBlacklist(p)
  \/ RotateSession(p)
  \/ RevokeAllCount(p)
  \/ RevokeAllList(p)
  \/ RevokeAllBlacklist(p)
  \/ RevokeAllDelete(p)
  \/ Respond(p)

NextSeq ==
  \/ Login(1)
  \/ \E t \in issued : RefreshStart(1, t, "d1", "ip1")
  \/ \E a \in issued, d \in Devices : Authenticate(1, a, d, "ip1")
  \/ \E a \in issued, r \in issued : LogoutStart(1, a, r, "d1", "ip1")
  \/ \E a \in issued : LogoutAllStart(1, a, "d1", "ip1")
  \/ \E a \in issued : ChangePasswordStart(1, a, "pw1", "d1", "ip1")
  \/ ChangePasswordIncrement(1)
  \/ RevokeBlacklist(1)
  \/ RevokeDelete(1)
  \/ TokenSteps(1)

SpecSeq == Init /\ [][NextSeq]_vars

(* ----------------- failed logins of one address, handled by several workers *)
NextRace ==
  \E p \in Workers :
    \/ LoginStart(p, "u1", "wrong", "d1", "ip1")
    \/ LoginView(p)
    \/ LoginAfter(p)
    \/ LoginIncrement(p)
    \/ Respond(p)

SpecRace == Init /\ [][NextRace]_vars

(* ------------------------- rotation from any device and address, one worker *)
NextRotate ==
  \/ Login(1)
  \/ \E t \in issued, d \in Devices, i \in IPs : RefreshStart(1, t, d, i)
  \/ TokenSteps(1)

SpecRotate == Init /\ [][NextRotate]_vars

(* ------------------------------- password reset by link, one worker *)
NextReset ==
  \/ \E u \in Users : LoginStart(1, u, "right", "d1", "ip1")
  \/ LoginView(1)
  \/ LoginAfter(1)
  \/ \E a \in issued, u \in Users : RequestPasswordResetView(1, a, u, "d1", "ip1")
  \/ \E t \in issued, pw \in Passwords \ {"pw0"} : ConfirmPasswordResetView(1, t, pw)
  \/ reset_password(1)
  \/ RevokeAllCount(1)
  \/ RevokeAllList(1)
  \/ RevokeAllBlacklist(1)
  \/ RevokeAllDelete(1)
  \/ Respond(1)

SpecReset == Init /\ [][NextReset]_vars

(* ------------------------------- sessions of two users, one worker *)
NextUsers ==
  \/ \E u \in Users : LoginStart(1, u, "right", "d1", "ip1")
  \/ \E t \in issued : RefreshStart(1, t, "d1", "ip1")
  \/ \E a \in issued : LogoutAllStart(1, a, "d1", "ip1")
  \/ \E a \in issued, sid \in 1..MaxJti : RevokeSessionStart(1, a, sid, "d1", "ip1")
  \/ RevokeBlacklist(1)
  \/ RevokeDelete(1)
  \/ TokenSteps(1)

SpecUsers == Init /\ [][NextUsers]_vars

(* ------------------------------- the token engine, requests interleaving *)
Next ==
  \E p \in Workers :
    \/ LoginStart(p, "u1", "right", "d1", "ip1")
    \/ \E t \in issued : RefreshStart(p, t, "d1", "ip1")
    \/ \E a \in issued : LogoutAllStart(p, a, "d1", "ip1")
    \/ TokenSteps(p)

Spec == Init /\ [][Next]_vars

(* ----------------------------------- login of an account of every status *)
InitStatus ==
  /\ tokenVersion = [u \in Users |-> 0]
  /\ \E st \in AccountStatuses :
       status = [u \in Users |-> IF u = "u1" THEN st ELSE "suspended"]
  /\ blacklist = {}
  /\ sessions = {}
  /\ rotations = {}
  /\ loginAttempts = EmptyBag
  /\ nextJti = 1
  /\ attempts = [i \in IPs |-> [n |-> 0, ttl |-> 0]]
  /\ lockout = [i \in IPs |-> 0]
  /\ pc = [p \in Workers |-> "idle"]
  /\ loc = [p \in Workers |-> Idle]
  /\ issued = {}
  /\ rotOK = [j \in 1..(MaxJti + 1) |-> 0]
  /\ rotRaised = {}
  /\ dead = {}
  /\ mintEpoch = [j \in 1..(MaxJti + 1) |-> 0]
  /\ blCalls = [j \in 1..(MaxJti + 1) |-> {}]
  /\ fails = [i \in IPs |-> NoFails]
  /\ password = [u \in Users |-> "pw0"]
  /\ resetCodes = [e \in Emails |-> NoCode]
  /\ resetTokens = {}
  /\ pwSets = [j \in 1..(MaxJti + 1) |-> 0]
  /\ wrongGuesses = <<>>

NextStatus ==
  \/ \E c \in {"wrong", "right"} : LoginStart(1, "u1", c, "d1", "ip1")
  \/ LoginView(1)
  \/ LoginAfter(1)
  \/ LoginIncrement(1)
  \/ Respond(1)

SpecStatus == InitStatus /\ [][NextStatus]_vars

(* ----------------------- password reset by code, requests interleaving *)
NextForgot ==
  \E p \in Workers :
    \/ \E e \in {"", "u1", "nobody"} : ForgotPasswordRequestView(p, e)
    \/ \E c \in Codes : ForgotPasswordVerifyView(p, "u1", c)
    \/ VerifyDecide(p)
    \/ VerifyDelete(p)
    \/ Respond(p)

SpecForgot == InitStatus /\ [][NextForgot]_vars

(* ------------------------------------- the authentication gate on its own *)
\* the tokens a client can present: minted by this code, or signed by an
\* earlier format of it that put no device_fp or no ip_hash in the payload
PresentedTokens ==
  {[jti |-> 1, kind |-> k, user |-> u, ver |-> v, device_fp |-> f, ip_hash |-> h,
    action |-> "none"] :
     k \in {"access", "refresh"}, u \in Users, v \in 0..MaxVersion,
     f \in {<<>>} \cup {_hash_value(get_device_fingerprint(d)) : d \in Devices},
     h \in {<<>>} \cup {_hash_value(i) : i \in IPs}}

\* one token in the hands of a client, blacklisted or not, its user at any
\* token_version
InitGate ==
  /\ tokenVersion \in [Users -> 0..MaxVersion]
  /\ status = [u \in Users |-> "active"]
  /\ \E t \in PresentedTokens :
       /\ issued = {t}
       /\ blacklist \in {{}, {[jti |-> t.jti, user |-> t.user, token_type |-> "access",
                                reason |-> "security"]}}
  /\ sessions = {}
  /\ rotations = {}
  /\ loginAttempts = EmptyBag
  /\ nextJti = 2
  /\ attempts = [i \in IPs |-> [n |-> 0, ttl |-> 0]]
  /\ lockout = [i \in IPs |-> 0]
  /\ pc = [p \in Workers |-> "idle"]
  /\ loc = [p \in Workers |-> Idle]
  /\ rotOK = [j \in 1..(MaxJti + 1) |-> 0]
  /\ rotRaised = {}
  /\ dead = {}
  /\ mintEpoch = [j \in 1..(MaxJti + 1) |-> 0]
  /\ blCalls = [j \in 1..(MaxJti + 1) |-> {}]
  /\ fails = [i \in IPs |-> NoFails]
  /\ password = [u \in Users |-> "pw0"]
  /\ resetCodes = [e \in Emails |-> NoCode]
  /\ resetTokens = {}
  /\ pwSets = [j \in 1..(MaxJti + 1) |-> 0]
  /\ wrongGuesses = <<>>

NextGate ==
  \/ \E a \in issued, d \in Devices, i \in IPs : Authenticate(1, a, d, i)
  \/ Respond(1)

SpecGate == InitGate /\ [][NextGate]_vars

(* ================================================================ claims *)
FinishedRefresh(p) ==
  pc[p] = "done" /\ loc[p].op = "refresh" /\ loc[p].tok.kind = "refresh"

UniqueJtis == \A t1 \in issued : \A t2 \in issued : t1.jti = t2.jti => t1 = t2

\* C1: with requests handled one at a time, a refresh call on token R either
\* is the only call ever answered with a pair (the first one: it returns a
\* refresh and an access token under jtis no other issued token has), or
\* comes after that call and is answered 401 token_reuse_detected, no tokens.
C1_RotationSingleUse ==
  /\ UniqueJtis
  /\ \A p \in Workers :
       FinishedRefresh(p) =>
         LET l == loc[p] IN
         IF l.status = 200
         THEN /\ rotOK[l.tok.jti] = 1
              /\ l.newR \in issued /\ l.newR.kind = "refresh"
              /\ l.newA \in issued /\ l.newA.kind = "access"
              /\ l.newR.jti # l.tok.jti /\ l.newA.jti # l.tok.jti
              /\ l.newR.jti # l.newA.jti
         ELSE /\ rotOK[l.tok.jti] = 1
              /\ l.status = 401 /\ l.code = "token_reuse_detected"
              /\ l.newR = NoTok /\ l.newA = NoTok

\* a second refresh call on an already rotated token has been refused
C1_Witness ==
  \E p \in Workers :
    /\ FinishedRefresh(p)
    /\ loc[p].status = 401
    /\ loc[p].code = "token_reuse_detected"
    /\ rotOK[loc[p].tok.jti] = 1

RefreshInFlight(jti) ==
  \E p \in Workers :
    /\ loc[p].op = "refresh"
    /\ loc[p].tok.jti = jti
    /\ pc[p] \notin {"idle", "done"}

\* C2: with refresh calls on the same token R interleaving step by step, the
\* ledger never holds two rows with old_token_jti = R.jti, never do two calls
\* return a pair, and once no call on R is in flight exactly one has.
C2_OneRotationUnderRace ==
  \A j \in 1..MaxJti :
    /\ Cardinality({r \in rotations : r.old_token_jti = j}) <= 1
    /\ rotOK[j] <= 1
    /\ ((AlreadyRotated(j) \/ j \in rotRaised) /\ ~RefreshInFlight(j)) => rotOK[j] = 1

\* two calls on one token raced up to the ledger insert, and both have ended
C2_Witness ==
  \E j \in rotRaised : rotOK[j] = 1 /\ ~RefreshInFlight(j)

\* C3: a refresh call that loses the race for the ledger row of its token
\* (its insert hits the uniqueness constraint) is answered as a replay, 401
\* token_reuse_detected, never with a storage error.
C3_RaceLoserIsReplay ==
  \A p \in Workers :
    (FinishedRefresh(p) /\ loc[p].tok.jti \in rotRaised /\ loc[p].status # 200) =>
      /\ loc[p].status = 401
      /\ loc[p].code = "token_reuse_detected"

\* C4: after a replay response for subject S, no token issued to S before
\* that response passes the authentication gate, from any device or address.
C4_ReplayRevokesEverything ==
  \A t \in issued :
    t.jti \in dead => \A d \in Devices, i \in IPs : Gate(t, d, i) # "ok"

\* C5: a refresh call on a token whose jti was in the blacklist when the
\* call arrived returns no token pair.
C5_BlacklistedNeverRotates ==
  \A p \in Workers :
    (FinishedRefresh(p) /\ loc[p].revoked) =>
      /\ loc[p].status # 200
      /\ loc[p].newR = NoTok /\ loc[p].newA = NoTok

\* C6: an access token minted when the stored token_version was lower than
\* it is now fails the gate with token_version_mismatch from every device and
\* address; one minted under the current token_version passes the version
\* check.
C6_EpochInvalidation ==
  \A t \in issued :
    t.kind = "access" =>
      \A d \in Devices, i \in IPs :
        /\ mintEpoch[t.jti] < tokenVersion[t.user]
             => Gate(t, d, i) = "token_version_mismatch"
        /\ mintEpoch[t.jti] = tokenVersion[t.user]
             => Gate(t, d, i) \in {"ok", "device_fingerprint_mismatch"}

\* a password change lies between the minting of two access tokens
C6_Witness ==
  \E t1 \in issued : \E t2 \in issued :
    /\ t1.kind = "access" /\ t2.kind = "access" /\ t1.user = t2.user
    /\ mintEpoch[t1.jti] < tokenVersion[t1.user]
    /\ mintEpoch[t2.jti] = tokenVersion[t2.user]
    /\ Gate(t1, "d1", "ip1") = "token_version_mismatch"
    /\ Gate(t2, "d1", "ip1") = "ok"

\* C7: a refresh call on a token minted under an older token_version returns
\* no pair; when the token was not rotated before, it is refused with
\* password_epoch_mismatch.
C7_RotateChecksEpoch ==
  \A p \in Workers :
    (FinishedRefresh(p) /\ loc[p].tok.ver # tokenVersion[loc[p].tok.user]) =>
      /\ loc[p].status = 401
      /\ loc[p].code \in {"password_epoch_mismatch", "token_reuse_detected"}
      /\ loc[p].newR = NoTok /\ loc[p].newA = NoTok

\* C8: no step changes or removes a blacklist row, and no step leaves two
\* rows with one jti: a second revocation of a jti keeps the row of the first.
C8_RevokeIdempotent ==
  [][ /\ \A e \in blacklist : e \in blacklist'
      /\ \A e1 \in blacklist' : \A e2 \in blacklist' : e1.jti = e2.jti => e1 = e2
    ]_vars

\* one jti was revoked twice, for two different reasons, and has one row
C8_Witness ==
  \E j \in 1..MaxJti :
    /\ Cardinality(blCalls[j]) >= 2
    /\ Cardinality({e \in blacklist : e.jti = j}) = 1

InWindow(i) ==
  /\ Len(fails[i].ages) = MAX_LOGIN_ATTEMPTS
  /\ \A k \in 1..Len(fails[i].ages) : fails[i].ages[k] < LockoutTicks

\* C9: when the last MAX_LOGIN_ATTEMPTS logins of an address all failed less
\* than one lockout duration ago, the lockout flag of the address exists; and
\* a login request that finds the flag is answered 429 rate_limited with no
\* credential check and no tokens or session.
C9_LockoutAfterThreshold ==
  /\ \A i \in IPs : InWindow(i) => lockout[i] > 0
  /\ \A p \in Workers :
       (loc[p].op = "login" /\ loc[p].locked) =>
         /\ pc[p] = "done"
         /\ loc[p].status = 429 /\ loc[p].code = "rate_limited"
         /\ ~loc[p].checked
         /\ loc[p].newR = NoTok /\ loc[p].newA = NoTok

\* the sixth attempt, inside the window, has been refused
C9_Witness ==
  \E p \in Workers :
    /\ pc[p] = "done" /\ loc[p].op = "login" /\ loc[p].locked
    /\ loc[p].status = 429
    /\ InWindow(loc[p].ip)

\* C10: the lockout flag of an address exists only when MAX_LOGIN_ATTEMPTS
\* logins of the address have failed since its last successful login.
C10_SuccessClearsCounter ==
  \A i \in IPs : lockout[i] > 0 => Len(fails[i].ages) >= MAX_LOGIN_ATTEMPTS

\* four failures, a success, four failures: the address is not locked out
C10_Witness ==
  /\ fails["ip1"].prev = MAX_LOGIN_ATTEMPTS - 1
  /\ Len(fails["ip1"].ages) = MAX_LOGIN_ATTEMPTS - 1
  /\ lockout["ip1"] = 0
  /\ \A p \in Workers : pc[p] = "idle"

FinishedGate(p) == pc[p] = "done" /\ loc[p].op = "authenticate"

\* the token passes every check of the gate that comes before the device check
OtherwiseValid(tok) ==
  /\ tok.kind = "access"
  /\ BlacklistValidator(tok.jti)
  /\ TokenVersionValidator(tok, tok.user)

\* C11: a request with an access token that is not blacklisted and carries the
\* current token_version passes the gate from every device when the token has
\* no device_fp; when the token has the device_fp of fingerprint F1 it passes
\* from F1 and is refused with device_fingerprint_mismatch from any other.
C11_DeviceTolerance ==
  \A p \in Workers :
    (FinishedGate(p) /\ OtherwiseValid(loc[p].tok)) =>
      LET l == loc[p]
          fp == get_device_fingerprint(l.dev)
      IN
      IF l.tok.device_fp = <<>> \/ l.tok.device_fp = _hash_value(fp)
      THEN l.status = 200 /\ l.code = "ok"
      ELSE l.status = 401 /\ l.code = "device_fingerprint_mismatch"

\* a token without device_fp has passed the gate
C11_Witness ==
  \E p \in Workers :
    /\ FinishedGate(p) /\ OtherwiseValid(loc[p].tok)
    /\ loc[p].tok.device_fp = <<>>
    /\ loc[p].status = 200

\* C12: the answer of the gate to a request does not depend on the address
\* of the request: the same token from the same device gets from every other
\* address the answer the request got.
C12_IpObservational ==
  \A p \in Workers :
    FinishedGate(p) =>
      \A i \in IPs : Gate(loc[p].tok, loc[p].dev, i) = loc[p].code

\* a request from an address other than the one in the token has passed
C12_Witness ==
  \E p \in Workers :
    /\ FinishedGate(p)
    /\ loc[p].tok.ip_hash # <<>>
    /\ ~IPValidator(loc[p].tok, loc[p].ip)
    /\ loc[p].status = 200

StatusRefusals == {"account_pending", "account_rejected", "account_suspended"}

\* C13: the step that follows a login refused for the status of the account
\* (403 account_pending, account_rejected or account_suspended) leaves the
\* failure counter and the lockout flag of every address as they were.
C13_StatusFailuresNotCounted ==
  [][ \A p \in Workers :
        (pc[p] = "login_incr" /\ loc[p].code \in StatusRefusals)
          => UNCHANGED <<attempts, lockout>>
    ]_vars

\* the view has handled the login of a user with the right password
ViewAnswered(p) ==
  /\ pc[p] \in {"login_after", "login_incr", "done"}
  /\ loc[p].op = "login" /\ loc[p].checked
  /\ loc[p].email \in Users /\ loc[p].creds = "right"

\* C14: a login with the right password that reaches the view is answered
\* 403 with account_pending, account_rejected or account_suspended when the
\* account has that status, returns no tokens and the user has no session and
\* no token; with status approved or active it is answered 200 with a token
\* pair and the user has a session holding the refresh jti.
C14_AccountStatusGate ==
  \A p \in Workers :
    ViewAnswered(p) =>
      LET l == loc[p]
          st == status[l.email]
      IN
      IF st \in {"pending", "rejected", "suspended"}
      THEN /\ l.status = 403
           /\ st = "pending" => l.code = "account_pending"
           /\ st = "rejected" => l.code = "account_rejected"
           /\ st = "suspended" => l.code = "account_suspended"
           /\ l.newR = NoTok /\ l.newA = NoTok
           /\ SessionsOf(l.email) = {}
           /\ IssuedTo(l.email) = {}
      ELSE /\ l.status = 200
           /\ l.newR \in issued /\ l.newA \in issued
           /\ \E x \in SessionsOf(l.email) : x.refresh_token_jti = l.newR.jti

\* a pending account with the right password has been refused
C14_Witness ==
  \E p \in Workers :
    /\ ViewAnswered(p)
    /\ status[loc[p].email] = "pending"
    /\ loc[p].status = 403 /\ loc[p].code = "account_pending"

FinishedRevokeAll(p) ==
  /\ pc[p] = "done"
  /\ loc[p].reason \in {"logout_all", "token_reuse", "password_changed",
                        "password_reset"}

\* C15: with requests handled one at a time, when revoke_all_user_tokens has
\* returned for user S, S has no session row, the refresh jti of every session
\* S had when the call began is in the blacklist, the count returned is the
\* number of those sessions, and the session rows of the other users are the
\* ones they had when the call began.
C15_RevokeAllEffects ==
  \A p \in Workers :
    FinishedRevokeAll(p) =>
      LET l == loc[p]
          had == {x \in l.before : x.user = l.user}
      IN
      /\ SessionsOf(l.user) = {}
      /\ \A x \in had : x.refresh_token_jti \in BlacklistedJtis(blacklist)
      /\ l.count = Cardinality(had)
      /\ {x \in sessions : x.user # l.user} = {x \in l.before : x.user # l.user}

\* logout-all of a user with two sessions, while another user has a session
C15_Witness ==
  \E p \in Workers :
    /\ FinishedRevokeAll(p)
    /\ loc[p].op = "logout_all"
    /\ loc[p].count = 2
    /\ \E x \in sessions : x.user # loc[p].user

FinishedRevokeSession(p) == pc[p] = "done" /\ loc[p].op = "revoke_session"

\* C16: with requests handled one at a time, a revoke-session request of user
\* A for a session id that is not the id of one of A's sessions is answered
\* 404 not_found and the session table and the blacklist are as they were;
\* for the id of one of A's sessions it is answered 200, that row alone is
\* gone and its refresh jti is in the blacklist.
C16_RevokeOwnSessionsOnly ==
  \A p \in Workers :
    FinishedRevokeSession(p) =>
      LET l == loc[p]
          own == {x \in l.before : x.id = l.sid /\ x.user = l.user}
      IN
      IF own = {}
      THEN /\ l.status = 404 /\ l.code = "not_found"
           /\ sessions = l.before
           /\ blacklist = l.blBefore
      ELSE /\ l.status = 200
           /\ sessions = l.before \ own
           /\ \A x \in own : x.refresh_token_jti \in BlacklistedJtis(blacklist)

\* user A asked for the session of user B and was answered 404
C16_Witness ==
  \E p \in Workers :
    /\ FinishedRevokeSession(p)
    /\ loc[p].status = 404
    /\ \E x \in sessions : x.id = loc[p].sid /\ x.user # loc[p].user

\* user A revoked one of A's own sessions
C16_WitnessOwn ==
  \E p \in Workers :
    /\ FinishedRevokeSession(p)
    /\ loc[p].status = 200
    /\ \E x \in loc[p].before : x.id = loc[p].sid /\ x.user = loc[p].user

FinishedConfirm(p) == pc[p] = "done" /\ loc[p].op = "confirm_reset"

\* C17: a password is saved at most once on the presentation of one temporary
\* token: a confirmation answered 200 is the only one that saved a password
\* with its token, and every later confirmation with that token is refused.
C17_TemporaryTokenSingleUse ==
  /\ \A j \in 1..MaxJti : pwSets[j] <= 1
  /\ \A p \in Workers :
       (FinishedConfirm(p) /\ loc[p].status = 200) => pwSets[loc[p].tok.jti] = 1

\* C18: with verify requests interleaving step by step, at most MAX_ATTEMPTS
\* wrong codes are ever compared with one issued code.
C18_AtMostFiveWrongGuesses ==
  \A k \in 1..Len(wrongGuesses) : wrongGuesses[k] <= MAX_ATTEMPTS

FinishedForgotRequest(p) == pc[p] = "done" /\ loc[p].op = "forgot_request"

\* C19: a forgot-password request with an email is answered 200 with the
\* same message, whether or not an account has the email and whatever the
\* status of the account.
C19_RequestDoesNotEnumerate ==
  \A p \in Workers :
    (FinishedForgotRequest(p) /\ loc[p].email # "") =>
      loc[p].status = 200 /\ loc[p].code = "generic"

\* rotate_refresh_token would return a pair for this token
Rotatable(t) == t.kind = "refresh" /\ ~AlreadyRotated(t.jti)

\* C20: when no request is being handled, every issued refresh token that a
\* refresh call would still rotate is the refresh jti of exactly one session
\* row of its user.
C20_RegistryCompleteness ==
  (\A p \in Workers : pc[p] = "idle") =>
    \A t \in issued :
      Rotatable(t) =>
        Cardinality({x \in SessionsOf(t.user) : x.refresh_token_jti = t.jti}) = 1

\* C21: a refresh call from a device whose fingerprint does not hash to the
\* device_fp of the refresh token returns no token pair.
C21_RefreshDeviceBound ==
  \A p \in Workers :
    (/\ FinishedRefresh(p)
     /\ loc[p].tok.device_fp # <<>>
     /\ loc[p].tok.device_fp # _hash_value(get_device_fingerprint(loc[p].dev)))
      => /\ loc[p].status # 200
         /\ loc[p].newR = NoTok /\ loc[p].newA = NoTok

\* a step of a refresh call that is not on the replay path
RotateStep(p) ==
  /\ pc[p] \in {"rot_mint", "rot_insert", "rot_blacklist", "rot_session"}
  /\ pc'[p] # pc[p]

\* C22: no step of a rotation adds or removes a session row; the step that
\* ends a successful rotation of R leaves every session with its id, gives
\* the session that held R.jti the jti of the new refresh token, and changes
\* no other row.
C22_SessionSurvivesRotation ==
  [][ \A p \in Workers :
        RotateStep(p) =>
          /\ {x.id : x \in sessions'} = {x.id : x \in sessions}
          /\ Cardinality(sessions') = Cardinality(sessions)
          /\ \A x \in sessions :
               IF pc[p] = "rot_session" /\ x.refresh_token_jti = loc[p].tok.jti
               THEN [x EXCEPT !.refresh_token_jti = loc[p].newR.jti] \in sessions'
               ELSE x \in sessions'
    ]_vars

\* a session holds the refresh token of a finished rotation under the id it
\* got at login
C22_Witness ==
  \E p \in Workers :
    /\ FinishedRefresh(p) /\ loc[p].status = 200
    /\ \E x \in sessions :
         x.refresh_token_jti = loc[p].newR.jti /\ x.id = loc[p].tok.jti

\* C23: after a successful rotation, the session that holds the new refresh
\* jti has the address of the refresh request as its ip_address.
C23_RotationUpdatesSessionIp ==
  \A p \in Workers :
    (FinishedRefresh(p) /\ loc[p].status = 200) =>
      \A x \in sessions :
        x.refresh_token_jti = loc[p].newR.jti => x.ip_address = loc[p].ip

\* C24: after a successful rotation of R the blacklist has a row for R.jti of
\* type refresh with reason rotated.
C24_RotatedReason ==
  \A j \in 1..MaxJti :
    rotOK[j] >= 1 =>
      \E e \in blacklist :
        e.jti = j /\ e.token_type = "refresh" /\ e.reason = "rotated"

\* the device of the request does not hash to the device_fp of the token
DeviceMismatch(tok, dev) ==
  /\ tok.device_fp # <<>>
  /\ tok.device_fp # _hash_value(get_device_fingerprint(dev))

\* C25: the gate answers with the first failing check in the order decode,
\* blacklist, token_version, device: a token that is not an access token gets
\* token_not_valid; a blacklisted access token gets token_blacklisted, stale or
\* not, from any device; one that is not blacklisted and is stale gets
\* token_version_mismatch from any device; the device mismatch is reported
\* only for a token that is neither blacklisted nor stale.
C25_GateOrder ==
  \A p \in Workers :
    FinishedGate(p) =>
      LET l == loc[p]
          listed == l.tok.jti \in BlacklistedJtis(blacklist)
          stale == l.tok.ver # tokenVersion[l.tok.user]
      IN
      /\ l.tok.kind # "access" => l.code = "token_not_valid"
      /\ (l.tok.kind = "access" /\ listed) => l.code = "token_blacklisted"
      /\ (l.tok.kind = "access" /\ ~listed /\ stale)
           => l.code = "token_version_mismatch"
      /\ (l.tok.kind = "access" /\ ~listed /\ ~stale /\ DeviceMismatch(l.tok, l.dev))
           => l.code = "device_fingerprint_mismatch"
      /\ l.status = (IF l.code = "ok" THEN 200 ELSE 401)

\* a blacklisted, stale access token from a mismatching device has been
\* answered token_blacklisted
C25_Witness ==
  \E p \in Workers :
    /\ FinishedGate(p)
    /\ loc[p].tok.kind = "access"
    /\ loc[p].tok.jti \in BlacklistedJtis(blacklist)
    /\ loc[p].tok.ver # tokenVersion[loc[p].tok.user]
    /\ DeviceMismatch(loc[p].tok, loc[p].dev)
    /\ loc[p].code = "token_blacklisted"

\* a stale access token that is not blacklisted, from a mismatching device,
\* has been answered token_version_mismatch
C25_WitnessStale ==
  \E p \in Workers :
    /\ FinishedGate(p)
    /\ loc[p].tok.kind = "access"
    /\ loc[p].tok.jti \notin BlacklistedJtis(blacklist)
    /\ loc[p].tok.ver # tokenVersion[loc[p].tok.user]
    /\ DeviceMismatch(loc[p].tok, loc[p].dev)
    /\ loc[p].code = "token_version_mismatch"

\* no login request is between its start and its response
NoLoginInFlight == \A p \in Workers : pc[p] \in {"idle", "done"}

\* the number of failed logins of an address that the view has answered
FailedRows(i) ==
  BagCardinality([r \in {x \in BagToSet(loginAttempts) : x.ip = i /\ ~x.is_successful}
                    |-> CopiesIn(r, loginAttempts)])

\* C26: when every failed login of an address has been processed, whatever
\* the interleaving of the requests, the counter of the address is the number
\* of these failures (up to the threshold), and the address is locked out
\* once that number has reached the threshold.
C26_AtomicIncrement ==
  NoLoginInFlight =>
    \A i \in IPs :
      /\ FailedRows(i) <= MAX_LOGIN_ATTEMPTS => attempts[i].n = FailedRows(i)
      /\ FailedRows(i) >= MAX_LOGIN_ATTEMPTS => lockout[i] > 0

\* C27: the lockout flag of an address is set only by the last of
\* MAX_LOGIN_ATTEMPTS failed logins that all happened less than one lockout
\* duration before it.
C27_OnlyFailuresInWindow ==
  \A i \in IPs :
    lockout[i] = LockoutTicks =>
      /\ Len(fails[i].ages) = MAX_LOGIN_ATTEMPTS
      /\ \A k \in 1..Len(fails[i].ages) : fails[i].ages[k] < LockoutTicks

\* C28: a login request that has its answer, whatever the answer, has added
\* exactly one LoginAttempt row to those that existed when it arrived.
C28_OneRowPerAttempt ==
  \A p \in Workers :
    (pc[p] = "done" /\ loc[p].op = "login") =>
      BagCardinality(loginAttempts) = loc[p].rows + 1

\* a login request is answered 429
RateLimitedStep(p) ==
  /\ pc[p] = "idle" /\ pc'[p] = "done"
  /\ loc'[p].op = "login" /\ loc'[p].status = 429

\* C30: a login answered 429 leaves the failure counter, the lockout flag and
\* their expiries as they were; as long as the flag of an address exists, the
\* time it has left is the lockout duration less the age of the failure that
\* set it, and the counter expires with it, so that the address starts from
\* zero when the lockout is over.
C30_RateLimitedChangesNothing ==
  [][ /\ \A p \in Workers :
           RateLimitedStep(p) => attempts' = attempts /\ lockout' = lockout
      /\ \A i \in IPs :
           lockout'[i] > 0 =>
             /\ Len(fails'[i].ages) = MAX_LOGIN_ATTEMPTS
             /\ lockout'[i] = LockoutTicks - fails'[i].ages[MAX_LOGIN_ATTEMPTS]
             /\ attempts'[i].ttl = lockout'[i]
      /\ \A i \in IPs :
           (lockout[i] > 0 /\ lockout'[i] = 0) => CacheGetAttempts(i)' = 0
    ]_vars

\* a request was answered 429 after part of the lockout duration had passed
C30_Witness ==
  \E p \in Workers :
    /\ pc[p] = "done" /\ loc[p].op = "login" /\ loc[p].status = 429
    /\ lockout[loc[p].ip] > 0 /\ lockout[loc[p].ip] < LockoutTicks

\* the step of revoke_all_user_tokens that deletes the sessions and returns
RevokeAllDeletes(p) == pc[p] = "ra_loop" /\ pc'[p] = "done"

\* C29: whatever login or rotation of the same user overlaps it, every session
\* row that revoke_all_user_tokens deletes holds, when deleted, a refresh jti
\* that is in the blacklist, and the count it returns is the number of rows
\* it deletes.
C29_RevokeAllUnderOverlap ==
  [][ \A p \in Workers :
        RevokeAllDeletes(p) =>
          /\ \A x \in sessions \ sessions' :
               x.refresh_token_jti \in BlacklistedJtis(blacklist)
          /\ loc[p].count = Cardinality(sessions \ sessions')
    ]_vars

====
